---- MODULE Spec2Model ----
(***************************************************************************)
(* RecipeDashboard: the ingredient matcher of recipe-dashboard.            *)
(*                                                                         *)
(* Two revisions of the component are in the repository:                   *)
(*   "chips"  src/src/components/recipe-dashboard.tsx  (word-boundary      *)
(*            matching, linear score, ingredient chips, detail dialog)     *)
(*   "csv"    src/unnamed/part_000  (substring matching over a             *)
(*            comma-separated text field)                                  *)
(* A behaviour runs one of them (revision is fixed by Init).               *)
(*                                                                         *)
(* A JavaScript string is a sequence of one-character strings.             *)
(***************************************************************************)
EXTENDS Integers, Sequences, FiniteSets, TLC

VARIABLES
    revision,              \* which revision of the component runs
    recipes,               \* the catalog imported from recipes.json
    currentInput,          \* useState('')             (chips)
    ingredients,           \* useState<string[]>([])   (chips)
    selectedRecipe,        \* useState(null)           (chips)
    availableIngredients,  \* useState('')             (csv)
    mounted,               \* the last render returned; FALSE once it threw
    matchedRecipes         \* const matchedRecipes of the last render

vars == <<revision, recipes, currentInput, ingredients, selectedRecipe,
          availableIngredients, mounted, matchedRecipes>>

(***************************************************************************)
(* Bounds                                                                  *)
(***************************************************************************)
\* most chips the ingredient list holds in the model
MaxIngredients == 2

(***************************************************************************)
(* Characters and strings                                                  *)
(***************************************************************************)
UpperLetters == <<"A","B","C","D","E","F","G","H","I","J","K","L","M",
                  "N","O","P","Q","R","S","T","U","V","W","X","Y","Z">>
LowerLetters == <<"a","b","c","d","e","f","g","h","i","j","k","l","m",
                  "n","o","p","q","r","s","t","u","v","w","x","y","z">>
Digits == {"0","1","2","3","4","5","6","7","8","9"}

Range(f) == {f[i] : i \in DOMAIN f}

\* the characters of the strings modelled
Punctuation == {" ", ",", ".", "(", "_"}
Characters == Range(UpperLetters) \cup Range(LowerLetters) \cup Digits
                 \cup Punctuation

\* String.prototype.toLowerCase, one character
LowerChar ==
    [c \in Characters |->
        IF \E i \in DOMAIN UpperLetters : UpperLetters[i] = c
        THEN LowerLetters[CHOOSE i \in DOMAIN UpperLetters : UpperLetters[i] = c]
        ELSE c]

\* String.prototype.toLowerCase
toLowerCase(s) == [i \in 1..Len(s) |-> LowerChar[s[i]]]

\* the white space String.prototype.trim strips (of the characters modelled)
IsWhiteSpace(c) == c = " "

\* String.prototype.trim
trim(s) ==
    LET keep == {i \in 1..Len(s) : ~IsWhiteSpace(s[i])}
    IN  IF keep = {} THEN <<>>
        ELSE LET lo == CHOOSE i \in keep : \A j \in keep : i <= j
                 hi == CHOOSE i \in keep : \A j \in keep : j <= i
             IN  SubSeq(s, lo, hi)

\* String.prototype.split(sep) for a one-character separator: the pieces
\* between separators, empty pieces included ("".split(" ") is [""])
RECURSIVE split(_, _)
split(s, sep) ==
    LET at == {i \in 1..Len(s) : s[i] = sep}
    IN  IF at = {} THEN <<s>>
        ELSE LET p == CHOOSE i \in at : \A j \in at : i <= j
             IN  <<SubSeq(s, 1, p - 1)>> \o split(SubSeq(s, p + 1, Len(s)), sep)

\* String.prototype.includes
includes(s, sub) ==
    \E i \in 0..(Len(s) - Len(sub)) : SubSeq(s, i + 1, i + Len(sub)) = sub

(***************************************************************************)
(* Regular expressions: new RegExp(`\\b${userWord}\\b`) and String.match   *)
(***************************************************************************)
\* \w of a non-unicode JavaScript regular expression
WordChars == Range(LowerLetters) \cup Range(UpperLetters) \cup Digits \cup {"_"}

IsWordChar(c) == c \in WordChars

\* the assertion \b at offset p of s (between s[p] and s[p+1])
WordBoundary(s, p) ==
    LET before == p >= 1 /\ p <= Len(s) /\ IsWordChar(s[p])
        after  == p + 1 >= 1 /\ p + 1 <= Len(s) /\ IsWordChar(s[p + 1])
    IN  before # after

\* new RegExp throws SyntaxError on the source \b<userWord>\b: of the
\* characters modelled, "(" opens a group that is never closed
RegExpThrows(userWord) == \E i \in 1..Len(userWord) : userWord[i] = "("

\* one pattern character against one subject character: "." is the
\* wildcard, every other character modelled stands for itself
AtomMatches(atom, c) == IF atom = "." THEN TRUE ELSE atom = c

\* recipeIngredient.match(wordRegex) is not null, for a pattern that compiled
RegExpMatch(recipeIngredient, userWord) ==
    \E i \in 0..(Len(recipeIngredient) - Len(userWord)) :
        /\ WordBoundary(recipeIngredient, i)
        /\ \A k \in 1..Len(userWord) :
              AtomMatches(userWord[k], recipeIngredient[i + k])
        /\ WordBoundary(recipeIngredient, i + Len(userWord))

(***************************************************************************)
(* The catalog (recipes.json) and the texts a user types                   *)
(***************************************************************************)
Egg       == <<"e","g","g">>
Salt      == <<"s","a","l","t">>
Pepper    == <<"p","e","p","p","e","r">>
Bread     == <<"b","r","e","a","d">>
Butter    == <<"b","u","t","t","e","r">>
Eggs      == <<"E","g","g","s">>
EggWhite  == <<"e","g","g"," ","w","h","i","t","e">>
SaltFine  == <<"S","a","l","t",","," ","f","i","n","e">>

\* a Recipe is its name and the names of its ingredient entries, in order;
\* quantities, units, nutrients and instructions play no part in matching
SpecCatalog ==
    << [name |-> "Omelette", ingredients |-> <<Egg, Salt, Pepper>>],
       [name |-> "Toast",    ingredients |-> <<Bread, Butter>>] >>

TieCatalog ==
    << [name |-> "Toast",    ingredients |-> <<Bread, Butter>>],
       [name |-> "Omelette", ingredients |-> <<Egg, Salt, Pepper>>],
       [name |-> "Frittata", ingredients |-> <<Eggs, EggWhite>>],
       [name |-> "Pancake",  ingredients |-> <<Egg, Butter>>] >>

EdgeCatalog ==
    << [name |-> "Brine",    ingredients |-> <<SaltFine, Egg>>],
       [name |-> "Water",    ingredients |-> <<>>],
       [name |-> "Frittata", ingredients |-> <<Eggs, EggWhite>>] >>

\* a catalog whose every ingredient has the word "egg"
EggCatalog ==
    << [name |-> "Boiled egg", ingredients |-> <<Egg>>],
       [name |-> "Meringue",   ingredients |-> <<EggWhite>>] >>

Catalogs == {SpecCatalog, TieCatalog, EdgeCatalog, EggCatalog}

\* values of e.target.value in the chips revision
InputTexts ==
    { <<>>,
      <<" ">>,
      <<" ","E","g","g"," ">>,
      <<"w","h","i","t","e"," "," ","e","g","g">>,
      <<"(">>,
      <<"s",".","l","t">>,
      SaltFine }

\* values of e.target.value in the csv revision
CsvTexts ==
    { <<>>,
      <<" ",","," ">>,
      <<" ","E","g","g",","," ",",","s","a","l","t">>,
      <<"e","g","g"," ","w","h","i","t","e",",","(">>,
      <<"s",".","l","t",",",",","P","e","p","p","e","r">> }

\* e.key of a keydown event
Keys == {"Enter", "a"}

\* selectedRecipe === null
null == [null |-> TRUE]

(***************************************************************************)
(* Matching, chips revision  (recipe-dashboard.tsx, getRecipeMatches)      *)
(***************************************************************************)
\* userWords.every(userWord => recipeIngredient.match(new RegExp(...))),
\* from userWords[k] on: "true", "false", or "throw" when a RegExp that is
\* reached does not compile.  every stops at the first word that fails.
RECURSIVE everyUserWord(_, _, _)
everyUserWord(recipeIngredient, userWords, k) ==
    IF k > Len(userWords) THEN "true"
    ELSE IF RegExpThrows(userWords[k]) THEN "throw"
    ELSE IF RegExpMatch(recipeIngredient, userWords[k])
         THEN everyUserWord(recipeIngredient, userWords, k + 1)
         ELSE "false"

\* userIngredient.toLowerCase().split(' ')
userWordsOf(userIngredient) == split(toLowerCase(userIngredient), " ")

\* ingredients.some(userIngredient => ...), from userIngredients[k] on;
\* some stops at the first user ingredient that matches
RECURSIVE someUserIngredient(_, _, _)
someUserIngredient(recipeIngredient, userIngredients, k) ==
    IF k > Len(userIngredients) THEN "false"
    ELSE LET r == everyUserWord(recipeIngredient,
                                userWordsOf(userIngredients[k]), 1)
         IN  IF r = "false"
             THEN someUserIngredient(recipeIngredient, userIngredients, k + 1)
             ELSE r

\* the filter callback: the recipe ingredient is kept as missing
IsMissing(recipeIngredient, userIngredients) ==
    someUserIngredient(recipeIngredient, userIngredients, 1) = "false"

\* recipe.ingredients.map(i => i.name.toLowerCase())
recipeIngredientsOf(recipe) ==
    [i \in 1..Len(recipe.ingredients) |-> toLowerCase(recipe.ingredients[i])]

\* the map callback throws: filter visits every recipe ingredient, so it
\* throws as soon as one visit does
MatchThrows(recipe, userIngredients) ==
    \E i \in 1..Len(recipe.ingredients) :
        someUserIngredient(recipeIngredientsOf(recipe)[i], userIngredients, 1)
            = "throw"

(***************************************************************************)
(* Scores: JavaScript numbers that are quotients of two small counts       *)
(***************************************************************************)
RECURSIVE GCD(_, _)
GCD(a, b) == IF b = 0 THEN a ELSE GCD(b, a % b)

NaN == [kind |-> "NaN", num |-> 0, den |-> 0]
Infinity == [kind |-> "Infinity", num |-> 0, den |-> 0]

\* the number num/den (den > 0) in lowest terms, so that equal records are
\* equal numbers
Quotient(num, den) ==
    LET g == GCD(num, den)
    IN  [kind |-> "num", num |-> num \div g, den |-> den \div g]

\* matched / total in IEEE arithmetic: 0/0 is NaN, n/0 is Infinity
calculateScore(matched, total) ==
    IF total = 0
    THEN IF matched = 0 THEN NaN ELSE Infinity
    ELSE Quotient(matched, total)

\* the difference x - y: whether it is NaN, and its sign when it is not
NumberMinus(x, y) ==
    IF x.kind = "NaN" \/ y.kind = "NaN" THEN [nan |-> TRUE, sign |-> 0]
    ELSE IF x.kind = "Infinity"
         THEN IF y.kind = "Infinity" THEN [nan |-> TRUE, sign |-> 0]
              ELSE [nan |-> FALSE, sign |-> 1]
    ELSE IF y.kind = "Infinity" THEN [nan |-> FALSE, sign |-> -1]
    ELSE LET l == x.num * y.den
             r == y.num * x.den
         IN  [nan |-> FALSE,
              sign |-> IF l < r THEN -1 ELSE IF l > r THEN 1 ELSE 0]

(***************************************************************************)
(* Array.prototype.sort                                                    *)
(***************************************************************************)
\* the comparator (a, b) => b.score - a.score
compareScore(a, b) == NumberMinus(b.score, a.score)

\* SortCompare: a comparator result of NaN counts as +0
SortCompare(a, b) ==
    LET v == compareScore(a, b) IN IF v.nan THEN 0 ELSE v.sign

\* the comparator is a consistent comparator for the elements of list
ConsistentComparator(list) ==
    LET E == Range(list)
    IN  \A a \in E : \A b \in E :
          /\ SortCompare(a, a) = 0
          /\ SortCompare(a, b) = 0 => SortCompare(b, a) = 0
          /\ SortCompare(a, b) < 0 <=> SortCompare(b, a) > 0
          /\ \A c \in E :
               /\ SortCompare(a, b) = 0 /\ SortCompare(b, c) = 0
                     => SortCompare(a, c) = 0
               /\ SortCompare(a, b) < 0 /\ SortCompare(b, c) < 0
                     => SortCompare(a, c) < 0
               /\ SortCompare(a, b) > 0 /\ SortCompare(b, c) > 0
                     => SortCompare(a, c) > 0

\* x put into the sorted list behind every element that does not sort
\* after it (a stable insertion)
RECURSIVE Insert(_, _)
Insert(sorted, x) ==
    IF sorted = <<>> THEN <<x>>
    ELSE IF SortCompare(sorted[Len(sorted)], x) <= 0
         THEN Append(sorted, x)
         ELSE Append(Insert(SubSeq(sorted, 1, Len(sorted) - 1), x),
                     sorted[Len(sorted)])

\* the stable sort of list by the comparator
RECURSIVE StableSort(_)
StableSort(list) ==
    IF list = <<>> THEN <<>>
    ELSE Insert(StableSort(SubSeq(list, 1, Len(list) - 1)), list[Len(list)])

\* every arrangement of the elements of list
PermutationsOf(list) ==
    LET n == Len(list)
    IN  { [i \in 1..n |-> list[p[i]]] :
            p \in {q \in [1..n -> 1..n] : \A i, j \in 1..n : q[i] = q[j] => i = j} }

\* the arrays sort may return: the stable sorted order (ES2019) for a
\* consistent comparator, an implementation-defined order otherwise
sort(list) ==
    IF ConsistentComparator(list) THEN {StableSort(list)}
    ELSE PermutationsOf(list)

(***************************************************************************)
(* getRecipeMatches, chips revision                                        *)
(***************************************************************************)
\* RecipeMatch with matchedCount counted over the user's ingredients (those
\* that satisfy some recipe ingredient) instead of the recipe's
RecipeMatchCountingUserIngredients(recipe, userIngredients) ==
    LET recipeIngredients  == recipeIngredientsOf(recipe)
        missingIngredients ==
            SelectSeq(recipeIngredients,
                      LAMBDA ri : IsMissing(ri, userIngredients))
        totalCount   == Len(recipeIngredients)
        missingCount == Len(missingIngredients)
        matchedCount ==
            Len(SelectSeq(userIngredients,
                          LAMBDA u : \E i \in 1..totalCount :
                                        ~IsMissing(recipeIngredients[i], <<u>>)))
    IN  [name               |-> recipe.name,
         ingredients        |-> recipe.ingredients,
         missingCount       |-> missingCount,
         matchedCount       |-> matchedCount,
         totalCount         |-> totalCount,
         score              |-> calculateScore(matchedCount, totalCount),
         missingIngredients |-> missingIngredients]

\* the map callback of getRecipeMatches, when it does not throw
RecipeMatch(recipe, userIngredients) ==
    LET recipeIngredients  == recipeIngredientsOf(recipe)
        missingIngredients ==
            SelectSeq(recipeIngredients,
                      LAMBDA ri : IsMissing(ri, userIngredients))
        totalCount   == Len(recipeIngredients)
        missingCount == Len(missingIngredients)
        matchedCount == totalCount - missingCount
    IN  [name               |-> recipe.name,
         ingredients        |-> recipe.ingredients,
         missingCount       |-> missingCount,
         matchedCount       |-> matchedCount,
         totalCount         |-> totalCount,
         score              |-> calculateScore(matchedCount, totalCount),
         missingIngredients |-> missingIngredients]

\* getRecipeMatches throws for this catalog and user ingredient list
MatchesThrow(catalog, userIngredients) ==
    \E i \in 1..Len(catalog) : MatchThrows(catalog[i], userIngredients)

\* recipes.map(...) before the sort
MappedRecipes(catalog, userIngredients) ==
    [i \in 1..Len(catalog) |-> RecipeMatch(catalog[i], userIngredients)]

\* the arrays getRecipeMatches may return for this catalog and user
\* ingredient list; none when it throws
RecipeMatchesFor(catalog, userIngredients) ==
    IF MatchesThrow(catalog, userIngredients) THEN {}
    ELSE sort(MappedRecipes(catalog, userIngredients))

\* what a render of the chips revision leaves: it threw, or the array
\* bound to matchedRecipes
RenderOutcomes(catalog, userIngredients) ==
    IF MatchesThrow(catalog, userIngredients)
    THEN {[threw |-> TRUE, matchedRecipes |-> <<>>]}
    ELSE {[threw |-> FALSE, matchedRecipes |-> m] :
             m \in RecipeMatchesFor(catalog, userIngredients)}

(***************************************************************************)
(* getRecipeMatches, csv revision (part_000)                               *)
(***************************************************************************)
\* availableIngredients.toLowerCase().split(',').map(i => i.trim()).filter(i => i)
parseAvailable(text) ==
    LET parts   == split(toLowerCase(text), ",")
        trimmed == [i \in 1..Len(parts) |-> trim(parts[i])]
    IN  SelectSeq(trimmed, LAMBDA i : i # <<>>)

\* the filter callback i => !ingredients.some(avail => i.includes(avail))
IsMissingCsv(recipeIngredient, userIngredients) ==
    ~ \E k \in 1..Len(userIngredients) :
          includes(recipeIngredient, userIngredients[k])

\* the map callback of the csv revision
RecipeMatchCsv(recipe, userIngredients) ==
    LET recipeIngredients  == recipeIngredientsOf(recipe)
        missingIngredients ==
            SelectSeq(recipeIngredients,
                      LAMBDA ri : IsMissingCsv(ri, userIngredients))
    IN  [name               |-> recipe.name,
         ingredients        |-> recipe.ingredients,
         missingCount       |-> Len(missingIngredients),
         missingIngredients |-> missingIngredients]

\* x put into the list sorted by (a, b) => a.missingCount - b.missingCount
RECURSIVE InsertCsv(_, _)
InsertCsv(sorted, x) ==
    IF sorted = <<>> THEN <<x>>
    ELSE IF sorted[Len(sorted)].missingCount - x.missingCount <= 0
         THEN Append(sorted, x)
         ELSE Append(InsertCsv(SubSeq(sorted, 1, Len(sorted) - 1), x),
                     sorted[Len(sorted)])

RECURSIVE StableSortCsv(_)
StableSortCsv(list) ==
    IF list = <<>> THEN <<>>
    ELSE InsertCsv(StableSortCsv(SubSeq(list, 1, Len(list) - 1)),
                   list[Len(list)])

\* getRecipeMatches() of the csv revision
getRecipeMatchesCsv(catalog, text) ==
    LET userIngredients == parseAvailable(text)
    IN  StableSortCsv([i \in 1..Len(catalog) |->
                          RecipeMatchCsv(catalog[i], userIngredients)])

(***************************************************************************)
(* The component                                                           *)
(***************************************************************************)
\* how many cards the list shows: matchedRecipes.slice(0, 10)
MaxShown == 10

\* the component renders again with the state the step leaves
Render ==
    IF revision' = "chips"
    THEN \E r \in RenderOutcomes(recipes', ingredients') :
            /\ mounted' = ~r.threw
            /\ matchedRecipes' = r.matchedRecipes
    ELSE /\ mounted' = TRUE
         /\ matchedRecipes' = getRecipeMatchesCsv(recipes', availableIngredients')

Init ==
    /\ revision \in {"chips", "csv"}
    /\ recipes \in Catalogs
    /\ currentInput = <<>>
    /\ ingredients = <<>>
    /\ selectedRecipe = null
    /\ availableIngredients = <<>>
    /\ IF revision = "chips"
       THEN \E r \in RenderOutcomes(recipes, ingredients) :
               /\ mounted = ~r.threw
               /\ matchedRecipes = r.matchedRecipes
       ELSE /\ mounted = TRUE
            /\ matchedRecipes = getRecipeMatchesCsv(recipes, availableIngredients)

\* the Dialog of ./ui/dialog keeps the page behind it from being used while
\* it is open.  The design lists keystroke, add-chip, remove-chip,
\* clear-all, select-recipe and close-dialog as discrete user actions with
\* no order among them.
DialogIsModal == FALSE

\* the input, the chips and the cards take user events
PageInteractive ==
    /\ revision = "chips"
    /\ mounted
    /\ ~(DialogIsModal /\ selectedRecipe # null)

\* the Input's onChange: setCurrentInput(e.target.value); the render that
\* follows sorts the same results again
onChange(value) ==
    /\ PageInteractive
    /\ currentInput' = value
    /\ UNCHANGED <<revision, recipes, ingredients, selectedRecipe,
                   availableIngredients, mounted, matchedRecipes>>

\* handleKeyDown testing currentInput instead of currentInput.trim()
handleKeyDownUntrimmedTest(key) ==
    IF key = "Enter" /\ currentInput # <<>>
    THEN /\ ingredients' = Append(ingredients, toLowerCase(trim(currentInput)))
         /\ currentInput' = <<>>
    ELSE UNCHANGED <<ingredients, currentInput>>

\* the state handleKeyDown leaves for the key pressed
handleKeyDownEffect(key) ==
    IF key = "Enter" /\ trim(currentInput) # <<>>
    THEN /\ ingredients' = Append(ingredients, toLowerCase(trim(currentInput)))
         /\ currentInput' = <<>>
    ELSE UNCHANGED <<ingredients, currentInput>>

handleKeyDown(key) ==
    /\ PageInteractive
    /\ (key = "Enter" /\ trim(currentInput) # <<>>)
          => Len(ingredients) < MaxIngredients
    /\ handleKeyDownEffect(key)
    /\ UNCHANGED <<revision, recipes, selectedRecipe, availableIngredients>>
    /\ IF ingredients' = ingredients
       THEN UNCHANGED <<mounted, matchedRecipes>>
       ELSE Render

\* ingredients.filter(ing => ing !== ingredientToRemove)
removeIngredientResult(list, ingredientToRemove) ==
    SelectSeq(list, LAMBDA ing : ing # ingredientToRemove)

\* a click on the chip at index: removeIngredient(ingredient)
removeIngredient(index) ==
    /\ PageInteractive
    /\ index \in 1..Len(ingredients)
    /\ ingredients' = removeIngredientResult(ingredients, ingredients[index])
    /\ UNCHANGED <<revision, recipes, currentInput, selectedRecipe,
                   availableIngredients>>
    /\ Render

\* a click on Clear All, shown while there are chips
clearAllIngredients ==
    /\ PageInteractive
    /\ Len(ingredients) > 0
    /\ ingredients' = <<>>
    /\ UNCHANGED <<revision, recipes, currentInput, selectedRecipe,
                   availableIngredients>>
    /\ Render

\* the cards on screen: matchedRecipes.slice(0, 10), shown while there
\* are chips
ShownCards ==
    IF Len(ingredients) > 0
    THEN {i \in 1..MaxShown : i <= Len(matchedRecipes)}
    ELSE {}

\* a click on the card at index: handleRecipeClick(recipe)
handleRecipeClick(index) ==
    /\ PageInteractive
    /\ index \in ShownCards
    /\ selectedRecipe' = matchedRecipes[index]
    /\ UNCHANGED <<revision, recipes, currentInput, ingredients,
                   availableIngredients, mounted, matchedRecipes>>

\* the Dialog's onOpenChange: setSelectedRecipe(null)
onOpenChange ==
    /\ revision = "chips" /\ mounted
    /\ selectedRecipe # null
    /\ selectedRecipe' = null
    /\ UNCHANGED <<revision, recipes, currentInput, ingredients,
                   availableIngredients, mounted, matchedRecipes>>

\* the csv revision's onChange: setAvailableIngredients(e.target.value)
onChangeCsv(value) ==
    /\ revision = "csv"
    /\ availableIngredients' = value
    /\ UNCHANGED <<revision, recipes, currentInput, ingredients,
                   selectedRecipe>>
    /\ Render

Next ==
    \/ \E value \in InputTexts : onChange(value)
    \/ \E key \in Keys : handleKeyDown(key)
    \/ \E index \in 1..MaxIngredients : removeIngredient(index)
    \/ clearAllIngredients
    \/ \E index \in 1..MaxShown : handleRecipeClick(index)
    \/ onOpenChange
    \/ \E value \in CsvTexts : onChangeCsv(value)

Spec == Init /\ [][Next]_vars

(***************************************************************************)
(* Properties                                                              *)
(***************************************************************************)
\* the chips revision is on screen with the results of its last render
ChipsShown == revision = "chips" /\ mounted

\* the catalog entry a result was computed for (recipe names are unique)
CatalogIndex(result) ==
    CHOOSE i \in 1..Len(recipes) : recipes[i].name = result.name

\* a score is the number n
ScoreIs(score, n) == score.kind = "num" /\ score.num = n * score.den

\* a score is a number in [0, 1]
ScoreInUnitInterval(score) ==
    score.kind = "num" /\ 0 <= score.num /\ score.num <= score.den

\* C1: every result of getRecipeMatches has matchedCount + missingCount =
\* totalCount = the number of ingredients of its recipe, missingCount = the
\* length of missingIngredients, and 0 <= matchedCount <= totalCount.
C1_CountsAddUp ==
    ChipsShown =>
        \A i \in 1..Len(matchedRecipes) :
            LET r == matchedRecipes[i]
            IN  /\ r.matchedCount + r.missingCount = r.totalCount
                /\ r.totalCount = Len(recipes[CatalogIndex(r)].ingredients)
                /\ r.missingCount = Len(r.missingIngredients)
                /\ 0 <= r.matchedCount
                /\ r.matchedCount <= r.totalCount

\* a result with some ingredients matched and some missing, two chips in
\* the list
C1_Witness ==
    /\ ChipsShown
    /\ Len(ingredients) = 2
    /\ \E i \in 1..Len(matchedRecipes) :
          /\ matchedRecipes[i].matchedCount > 0
          /\ matchedRecipes[i].missingCount > 0

\* C2: getRecipeMatches never throws: whatever non-blank texts were added,
\* the render returns a result for every recipe.
C2_MatchingNeverThrows ==
    revision = "chips" =>
        /\ mounted
        /\ Len(matchedRecipes) = Len(recipes)

\* C3: the linear score of every result is a number in [0, 1], and it is 0
\* for a recipe without ingredients.
C3_ScoreIsANumberInUnitInterval ==
    ChipsShown =>
        \A i \in 1..Len(matchedRecipes) :
            LET r == matchedRecipes[i]
            IN  /\ ScoreInUnitInterval(r.score)
                /\ r.totalCount = 0 => ScoreIs(r.score, 0)

\* the user's ingredients are exactly the recipe's ingredient names, letter
\* case aside
ExactlyTheIngredientsOf(result) ==
    Range(ingredients) = Range(recipeIngredientsOf(result))

\* C4: when the chips are exactly a recipe's ingredient names (letter case
\* aside), that recipe has nothing missing, everything matched and score 1.
C4_ExactMatchScoresOne ==
    ChipsShown =>
        \A i \in 1..Len(matchedRecipes) :
            LET r == matchedRecipes[i]
            IN  ExactlyTheIngredientsOf(r) =>
                    /\ r.missingCount = 0
                    /\ r.matchedCount = r.totalCount
                    /\ ScoreIs(r.score, 1)

\* score x is less than score y, as numbers
ScoreLess(x, y) ==
    x.kind = "num" /\ y.kind = "num" /\ x.num * y.den < y.num * x.den

\* C5: the results are in descending order of score, and results of equal
\* score are in catalog order.
C5_SortedDescendingStable ==
    ChipsShown =>
        \A i \in 1..Len(matchedRecipes) : \A j \in 1..Len(matchedRecipes) :
            i < j =>
                LET a == matchedRecipes[i]
                    b == matchedRecipes[j]
                IN  /\ ~ScoreLess(a.score, b.score)
                    /\ a.score = b.score => CatalogIndex(a) < CatalogIndex(b)

\* the white-space separated words of a phrase
WordsOfPhrase(phrase) ==
    SelectSeq(split(phrase, " "), LAMBDA w : w # <<>>)

\* word stands in s as a whole word: its characters, with a word boundary
\* before and behind
OccursAsWholeWord(word, s) ==
    \E i \in 0..(Len(s) - Len(word)) :
        /\ SubSeq(s, i + 1, i + Len(word)) = word
        /\ WordBoundary(s, i)
        /\ WordBoundary(s, i + Len(word))

\* some user phrase has every one of its words in the recipe ingredient
SatisfiedByAPhrase(recipeIngredient, userIngredients) ==
    \E k \in 1..Len(userIngredients) :
        \A w \in Range(WordsOfPhrase(userIngredients[k])) :
            OccursAsWholeWord(w, recipeIngredient)

\* C6: a recipe ingredient is left out of missingIngredients if and only if
\* some user phrase has all its words in it as whole words.
C6_WordBoundaryRule ==
    ChipsShown =>
        \A i \in 1..Len(matchedRecipes) :
            LET r == matchedRecipes[i]
            IN  \A ri \in Range(recipeIngredientsOf(r)) :
                    (ri \notin Range(r.missingIngredients))
                        <=> SatisfiedByAPhrase(ri, ingredients)

\* a user ingredient of one word
SingleWord(userIngredient) ==
    \A i \in 1..Len(userIngredient) : userIngredient[i] # " "

\* C7: with the chip "egg", the ingredient "eggs" is missing under the
\* word-boundary rule and matched under the substring rule; and whatever a
\* single-word chip matches under the word-boundary rule, it matches under
\* the substring rule.
C7_WordBoundaryWithinSubstring ==
    ChipsShown =>
        \A i \in 1..Len(matchedRecipes) :
            LET r == matchedRecipes[i]
            IN  \A ri \in Range(recipeIngredientsOf(r)) :
                  /\ (ingredients = <<Egg>> /\ ri = toLowerCase(Eggs)) =>
                        /\ ri \in Range(r.missingIngredients)
                        /\ ~IsMissingCsv(ri, ingredients)
                  /\ \A k \in 1..Len(ingredients) :
                        (/\ SingleWord(ingredients[k])
                         /\ ~RegExpThrows(ingredients[k])
                         /\ ~IsMissing(ri, <<ingredients[k]>>))
                            => ~IsMissingCsv(ri, <<ingredients[k]>>)

\* C8: with no chips, every recipe has all its ingredients missing, none
\* matched, and score 0.
C8_EmptyListMatchesNothing ==
    (ChipsShown /\ ingredients = <<>>) =>
        \A i \in 1..Len(matchedRecipes) :
            LET r == matchedRecipes[i]
            IN  /\ r.missingCount = r.totalCount
                /\ r.matchedCount = 0
                /\ r.missingIngredients = recipeIngredientsOf(r)
                /\ ScoreIs(r.score, 0)

\* an entry the matcher compares: not empty, trimmed, lower case
Normalized(entry) ==
    /\ entry # <<>>
    /\ trim(entry) = entry
    /\ toLowerCase(entry) = entry

\* every entry the matcher of the running revision compares is normalized
UserIngredientsNormalized ==
    /\ revision = "chips" =>
          \A k \in 1..Len(ingredients) : Normalized(ingredients[k])
    /\ revision = "csv" =>
          \A e \in Range(parseAvailable(availableIngredients)) : Normalized(e)

\* C9: every user ingredient that is matched is non-empty, trimmed and
\* lower case (chips, and the segments of the csv text), and Enter on a
\* blank input changes nothing.
C9_EntriesNormalized ==
    /\ []UserIngredientsNormalized
    /\ [][(handleKeyDown("Enter") /\ trim(currentInput) = <<>>)
             => UNCHANGED vars]_vars

\* chips in the list, the first typed as " Egg ", while the input holds
\* only white space
C9_Witness ==
    /\ ChipsShown
    /\ Len(ingredients) = 2
    /\ ingredients[1] = Egg
    /\ currentInput # <<>>
    /\ trim(currentInput) = <<>>

WithoutEntryAt(list, index) ==
    SubSeq(list, 1, index - 1) \o SubSeq(list, index + 1, Len(list))

\* C11: a click on a chip removes that one entry: the list is one entry
\* shorter and the other entries, chips of the same text among them, stay
\* in their order.
C11_RemoveExactlyTheClickedChip ==
    [][\A index \in 1..MaxIngredients :
          removeIngredient(index) =>
              /\ Len(ingredients') = Len(ingredients) - 1
              /\ ingredients' = WithoutEntryAt(ingredients, index)]_vars

\* what getRecipeMatches makes of a user ingredient list, recipe by recipe
\* in catalog order: it throws, or one result for each recipe
OutcomeFor(catalog, userIngredients) ==
    IF MatchesThrow(catalog, userIngredients)
    THEN [threw |-> TRUE, results |-> <<>>]
    ELSE [threw |-> FALSE, results |-> MappedRecipes(catalog, userIngredients)]

\* the lists of at most MaxIngredients entries that hold the same strings as
\* list, in any order and with any repetition
SameStringsAs(list) ==
    {l \in UNION {[1..n -> Range(list)] : n \in 0..MaxIngredients} :
        Range(l) = Range(list)}

\* the outcome depends only on which strings the list holds
DependsOnlyOnTheSet ==
    revision = "chips" =>
        \A l \in SameStringsAs(ingredients) :
            OutcomeFor(recipes, l) = OutcomeFor(recipes, ingredients)

\* the result for the recipe of that name in an array of results
ResultFor(results, name) ==
    results[CHOOSE i \in 1..Len(results) : results[i].name = name]

\* a step between two renders that adds an entry never raises a recipe's
\* missingCount nor lowers its score; one that takes entries away never
\* lowers a missingCount
MonotoneStep ==
    (ChipsShown /\ ChipsShown') =>
        \A i \in 1..Len(recipes) :
            LET before == ResultFor(matchedRecipes, recipes[i].name)
                after  == ResultFor(matchedRecipes', recipes[i].name)
            IN  /\ Range(ingredients) \subseteq Range(ingredients')
                     => /\ after.missingCount <= before.missingCount
                        /\ ~ScoreLess(after.score, before.score)
                /\ Range(ingredients') \subseteq Range(ingredients)
                     => after.missingCount >= before.missingCount

\* C12: matching is monotone in the user's ingredients and depends only on
\* their set: an add never raises a missingCount (nor lowers a score), a
\* removal or clear-all never lowers one, and lists of the same strings, in
\* another order or with duplicates, give the same result for every recipe.
C12_MonotoneAndSetDependent ==
    /\ []DependsOnlyOnTheSet
    /\ [][MonotoneStep]_vars

====
